---- MODULE Spec2Model ----
(* Model of src/app.py: the record store (data.csv), the timeline store   *)
(* (timeline_data.csv) and the handlers that read and write them.          *)
(*                                                                         *)
(* Representation.  A CSV file is a set of column names and a sequence of  *)
(* rows; a row maps each column to the TEXT of its cell.  A DataFrame is   *)
(* the same shape; a cell holds the text a value prints as (a float x is   *)
(* FloatText(x), e.g. "400.0") or the marker NaN for a missing value.      *)
(* Floats are fixed-point integers counting hundredths (Scale = 100), so   *)
(* round(x, 2) is exact.  Dates are day numbers relative to "now".         *)
EXTENDS Integers, Sequences, FiniteSets, TLC

VARIABLES
    dataFile,      \* DATA_FILE 'data.csv'
    timelineFile,  \* TIMELINE_FILE 'timeline_data.csv'
    op,            \* the handler that ran last ("none" before any request)
    df,            \* the DataFrame the last load_and_process_data returned
    sent,          \* the request body of the last update_data
    resp,          \* HTTP status and payload of the last response
    view,          \* the table the last graph function plotted
    pc,            \* generate_sample_timeline_data: position in the code
    rowIdx,        \* ... index of the main_df row being distributed
    remaining,     \* ... local 'remaining'
    current_date,  \* ... local 'current_date' (day number, now = 0)
    sample_data,   \* ... local 'sample_data'
    rng            \* ... the values random.randint will return

vars == <<dataFile, timelineFile, op, df, sent, resp, view,
          pc, rowIdx, remaining, current_date, sample_data, rng>>

genVars == <<pc, rowIdx, remaining, current_date, sample_data, rng>>

-----------------------------------------------------------------------------
(* Bounds of the model *)

MaxRows == 2        \* rows of the record store in an initial state

-----------------------------------------------------------------------------
(* Numbers and their text *)

Scale == 100        \* fixed point: an integer n stands for the float n/100

Fx(n) == n * Scale

DigitText == <<"0", "1", "2", "3", "4", "5", "6", "7", "8", "9">>

RECURSIVE IntText(_)
IntText(n) ==
    IF n < 10 THEN DigitText[n + 1]
    ELSE IntText(n \div 10) \o DigitText[(n % 10) + 1]

\* repr of a float, as to_csv and jsonify print it: 400.0, 0.5, 57.14
FloatText(x) ==
    LET fr == x % Scale
    IN  IntText(x \div Scale) \o "." \o
        (IF fr % 10 = 0 THEN DigitText[(fr \div 10) + 1]
         ELSE DigitText[(fr \div 10) + 1] \o DigitText[(fr % 10) + 1])

NaN == "<NaN>"      \* a missing value of a DataFrame (never the text of a cell)

NotANumber == 0 - 1  \* what parsing yields for text that is no number

\* read_csv's default na_values that occur in this model
NAStrings == {"", "N/A", "NA", "NaN", "nan", "null", "NULL", "n/a", "#N/A"}

\* Rounding of the quotient a/b (a >= 0, b > 0) to the nearest integer, ties to even
RoundHalfEven(a, b) ==
    LET q == a \div b
        r == a % b
    IN  IF 2 * r < b THEN q
        ELSE IF 2 * r > b THEN q + 1
        ELSE IF q % 2 = 0 THEN q ELSE q + 1

RoundDown(a, b) == a \div b

\* Series.round(2) of the quotient a/b, in hundredths
round2(a, b) == RoundHalfEven(a, b)

RECURSIVE Gcd(_, _)
Gcd(a, b) == IF b = 0 THEN a ELSE Gcd(b, a % b)

\* (Recepcao / Prev_Receb).where(Prev_Receb != 0, 0) * 100, rounded to 2 places.
\* The quotient is reduced first so that the product stays within 32 bits.
PercentOf(recepcao, prev_receb) ==
    IF prev_receb # 0
    THEN LET g == Gcd(recepcao, prev_receb)
         IN  round2((recepcao \div g) * 100 * Scale, prev_receb \div g)
    ELSE 0

\* The volumes (in SC) whose text occurs in cells of the record store
StoredVolumes == {Fx(0), Fx(7), Fx(400), Fx(1000), Fx(7000), Fx(150) + 50}

\* The weights (in Kg) whose text occurs in uploaded timeline events
UploadedWeights == {Fx(90), Fx(15000)}

NumUniverse ==
    StoredVolumes \cup UploadedWeights \cup
    {PercentOf(r, p) : r \in StoredVolumes, p \in StoredVolumes}

NumTextsOf(x) ==
    {FloatText(x)} \cup (IF x % Scale = 0 THEN {IntText(x \div Scale)} ELSE {})

ParseTable ==
    [t \in UNION {NumTextsOf(x) : x \in NumUniverse} |->
        CHOOSE x \in NumUniverse : t \in NumTextsOf(x)]

\* float(text): the number a text stands for, NotANumber if it is none
ParseNum(t) == IF t \in DOMAIN ParseTable THEN ParseTable[t] ELSE NotANumber

\* pd.to_numeric(cell, errors='coerce'), then .fillna(0).astype(float)
to_numeric_fillna(v) ==
    IF ParseNum(v) = NotANumber THEN FloatText(0) ELSE FloatText(ParseNum(v))

Num(v) == ParseNum(v)

-----------------------------------------------------------------------------
(* The record store: load_and_process_data and save_dataframe *)

raw_cols == <<"Cultivar", "Prev_Colheita", "Prev_Receb", "Recepcao", "Categoria", "Status">>

RawCols == {raw_cols[i] : i \in 1..Len(raw_cols)}

NumCols == {"Prev_Colheita", "Prev_Receb", "Recepcao"}

PercentCol == "%"

OK == "OK"
EmAndamento == "Em Andamento"
FaltaReceber == "Falta Receber"
PrevInvalida == "Prev. Invalida"

AbsentFile == [exists |-> FALSE, cols |-> {}, rows |-> <<>>]

EmptyFrame == [cols |-> {}, rows |-> <<>>]

\* pd.DataFrame(columns=raw_cols).to_csv(DATA_FILE)
EmptySchemaFile == [exists |-> TRUE, cols |-> RawCols, rows |-> <<>>]

\* What load_and_process_data leaves in DATA_FILE
FileAfterLoad(file) == IF ~file.exists THEN EmptySchemaFile ELSE file

\* pd.read_csv: a cell whose text is an NA string is read as NaN
read_csv(file) ==
    [cols |-> file.cols,
     rows |-> [i \in 1..Len(file.rows) |->
                 [c \in file.cols |->
                     IF file.rows[i][c] \in NAStrings THEN NaN
                     ELSE file.rows[i][c]]]]

\* for col in raw_cols: if col not in df.columns: df[col] = 0.0 or 'N/A'
FillMissingCols(frame) ==
    [cols |-> frame.cols \cup RawCols,
     rows |-> [i \in 1..Len(frame.rows) |->
                 [c \in frame.cols \cup RawCols |->
                     IF c \in frame.cols THEN frame.rows[i][c]
                     ELSE IF c \in NumCols THEN FloatText(0)
                     ELSE "N/A"]]]

\* for col in [three volumes]: df[col] = pd.to_numeric(...).fillna(0).astype(float)
CoerceNumCols(frame) ==
    [cols |-> frame.cols,
     rows |-> [i \in 1..Len(frame.rows) |->
                 [c \in frame.cols |->
                     IF c \in NumCols THEN to_numeric_fillna(frame.rows[i][c])
                     ELSE frame.rows[i][c]]]]

\* df['%'] = ...
AddPercent(frame) ==
    [cols |-> frame.cols \cup {PercentCol},
     rows |-> [i \in 1..Len(frame.rows) |->
                 [c \in frame.cols \cup {PercentCol} |->
                     IF c = PercentCol
                     THEN FloatText(PercentOf(Num(frame.rows[i]["Recepcao"]),
                                              Num(frame.rows[i]["Prev_Receb"])))
                     ELSE frame.rows[i][c]]]]

get_status_no_forecast_check(row) ==
    IF Num(row[PercentCol]) >= Fx(100) THEN OK
    ELSE IF Num(row["Recepcao"]) > 0 THEN EmAndamento
    ELSE FaltaReceber

get_status(row) ==
    IF Num(row["Prev_Receb"]) = 0 THEN PrevInvalida
    ELSE IF Num(row[PercentCol]) >= Fx(100) THEN OK
    ELSE IF Num(row["Recepcao"]) > 0 THEN EmAndamento
    ELSE FaltaReceber

\* df['Status'] = status: the column is replaced by the values of status
SetStatus(frame, status) ==
    [cols |-> frame.cols \cup {"Status"},
     rows |-> [i \in 1..Len(frame.rows) |->
                 [c \in frame.cols \cup {"Status"} |->
                     IF c = "Status" THEN status[i] ELSE frame.rows[i][c]]]]

FillStatus(row) == IF row["Status"] = NaN THEN EmAndamento ELSE row["Status"]

\* a per-row variant: recompute the Status of every row whose cell is empty
DeriveStatusPerRow(frame) ==
    LET PerRow(row) == IF "Status" \notin frame.cols \/ row["Status"] = NaN
                       THEN get_status(row) ELSE row["Status"]
    IN  SetStatus(frame, [i \in 1..Len(frame.rows) |-> PerRow(frame.rows[i])])

\* if 'Status' not in df.columns or df['Status'].isna().all(): ... else: fillna
DeriveStatus(frame) ==
    IF \/ "Status" \notin frame.cols
       \/ \A i \in 1..Len(frame.rows) : frame.rows[i]["Status"] = NaN
    THEN SetStatus(frame, [i \in 1..Len(frame.rows) |-> get_status(frame.rows[i])])
    ELSE SetStatus(frame, [i \in 1..Len(frame.rows) |-> FillStatus(frame.rows[i])])

load_and_process_data(file) ==
    DeriveStatus(AddPercent(CoerceNumCols(FillMissingCols(read_csv(FileAfterLoad(file))))))

\* to_csv of one cell of df.reindex(columns=raw_cols).fillna(0)
WriteCell(frame, row, c) ==
    IF c \notin frame.cols \/ row[c] = NaN THEN "0" ELSE row[c]

save_dataframe(frame) ==
    [exists |-> TRUE,
     cols   |-> RawCols,
     rows   |-> [i \in 1..Len(frame.rows) |->
                   [c \in RawCols |-> WriteCell(frame, frame.rows[i], c)]]]

-----------------------------------------------------------------------------
(* Handlers of the record store *)

\* @app.route('/data')
GetData ==
    /\ op = "none"
    /\ df' = load_and_process_data(dataFile)
    /\ dataFile' = FileAfterLoad(dataFile)
    /\ op' = "get_data"
    /\ resp' = [code |-> 200, n |-> Len(df'.rows)]
    /\ UNCHANGED <<timelineFile, sent, view>>
    /\ UNCHANGED genVars

\* @app.route('/update_data'): to_numeric on the three volumes, save, load
UpdateData(data) ==
    /\ NumCols \subseteq data.cols      \* new_df[col] raises KeyError otherwise
    /\ sent' = data
    /\ dataFile' = save_dataframe(CoerceNumCols(data))
    /\ df' = load_and_process_data(dataFile')
    /\ op' = "update_data"
    /\ resp' = [code |-> 200, n |-> Len(df'.rows)]
    /\ UNCHANGED <<timelineFile, view>>
    /\ UNCHANGED genVars

\* the client posts back, unedited, the records /data returned
UpdateDataEcho ==
    /\ op = "get_data"
    /\ UpdateData(df)

-----------------------------------------------------------------------------
(* Initial states: a data.csv written by hand or by an earlier run *)

StoredColSets ==
    {RawCols, RawCols \ {"Status"}, RawCols \ {"Categoria"},
     RawCols \ {"Prev_Receb"}, RawCols \cup {PercentCol}}

StoredNames == {<<"A", "X">>, <<"", "">>}

\* one row of a CSV file holding the six raw columns and a '%' column
CsvRow(cultivar, prev_colheita, prev_receb, recepcao, categoria, status, percent) ==
    [c \in RawCols \cup {PercentCol} |->
        CASE c = "Cultivar"      -> cultivar
          [] c = "Prev_Colheita" -> prev_colheita
          [] c = "Prev_Receb"    -> prev_receb
          [] c = "Recepcao"      -> recepcao
          [] c = "Categoria"     -> categoria
          [] c = "Status"        -> status
          [] OTHER               -> percent]

StoredFullRows ==
    {CsvRow(nm[1], "400", pr, rc, nm[2], st, "999") :
        nm \in StoredNames, pr \in {"0", "7", "1000"},
        rc \in {"abc", "400", "1000"}, st \in {"", "OK"}}

RowsOver(fullRows, cols) == {[c \in cols |-> r[c]] : r \in fullRows}

SeqsUpTo(S, n) == UNION {[1..k -> S] : k \in 0..n}

\* file is absent, or holds up to n rows drawn from fullRows under one of colSets
IsFileOver(file, fullRows, colSets, n) ==
    \/ file = AbsentFile
    \/ \E cs \in colSets, k \in 0..n :
          \E rs \in [1..k -> RowsOver(fullRows, cs)] :
             file = [exists |-> TRUE, cols |-> cs, rows |-> rs]

GenIdle ==
    /\ pc = "idle"
    /\ rowIdx = 0
    /\ remaining = 0
    /\ current_date = 0
    /\ sample_data = <<>>
    /\ rng = <<>>

InitLoad ==
    /\ IsFileOver(dataFile, StoredFullRows, StoredColSets, MaxRows)
    /\ timelineFile = <<>>
    /\ op = "none"
    /\ df = EmptyFrame
    /\ sent = EmptyFrame
    /\ resp = [code |-> 0, n |-> 0]
    /\ view = <<>>
    /\ GenIdle

NextLoad == GetData \/ UpdateDataEcho

SpecLoad == InitLoad /\ [][NextLoad]_vars

-----------------------------------------------------------------------------
(* The timeline store: process_timeline_data and import_timeline_data *)

MaxEvents == 2      \* events of an uploaded timeline sheet

KgPerSC == 60       \* volume_sc = quantidade_kg / 60.0

NaT == 0 - 9999     \* pd.to_datetime(..., errors='coerce') of an unparsable date

required_cols ==
    {"Responsavel pelo recebimento", "Data", "Turno", "Cultivar", "Quantidade (Kg)"}

\* pd.to_datetime of a cell: the day number (now = 0) or NaT
to_datetime(t) ==
    CASE t = "2025-01-05" -> 0 - 30
      [] t = "2025-01-06" -> 0 - 29
      [] OTHER            -> NaT

\* First-seen-wins variant of the lookup
cultivar_to_category_first(main_df, cultivar) ==
    LET idx == {i \in 1..Len(main_df.rows) : main_df.rows[i]["Cultivar"] = cultivar}
    IN  IF idx = {} THEN "N/A"
        ELSE main_df.rows[CHOOSE i \in idx : \A j \in idx : i <= j]["Categoria"]

\* dict(zip(main_df['Cultivar'], main_df['Categoria'])).get(cultivar, 'N/A'):
\* a later pair of zip overwrites an earlier one with the same key
cultivar_to_category(main_df, cultivar) ==
    LET idx == {i \in 1..Len(main_df.rows) : main_df.rows[i]["Cultivar"] = cultivar}
    IN  IF idx = {} THEN "N/A"
        ELSE main_df.rows[CHOOSE i \in idx : \A j \in idx : i >= j]["Categoria"]

\* a variant that keeps the weight in kg
TimelineRecordInKg(main_df, raw) ==
    [Data      |-> to_datetime(raw["Data"]),
     Cultivar  |-> raw["Cultivar"],
     Categoria |-> cultivar_to_category(main_df, raw["Cultivar"]),
     Volume_SC |-> ParseNum(raw["Quantidade (Kg)"])]

\* one record of processed_data; raw is a row of the validated sheet
TimelineRecord(main_df, raw) ==
    [Data      |-> to_datetime(raw["Data"]),
     Cultivar  |-> raw["Cultivar"],
     Categoria |-> cultivar_to_category(main_df, raw["Cultivar"]),
     Volume_SC |-> ParseNum(raw["Quantidade (Kg)"]) \div KgPerSC]

process_timeline_data(raw_df, file) ==
    LET main_df == load_and_process_data(file)
    IN  [k \in 1..Len(raw_df.rows) |-> TimelineRecord(main_df, raw_df.rows[k])]

FilenameOk(upload) ==
    upload.filename \in {"eventos.xlsx", "eventos.xls", "dados.xlsx", "dados.xls"}

EventOk(raw) ==
    /\ to_datetime(raw["Data"]) # NaT
    /\ ParseNum(raw["Quantidade (Kg)"]) # NotANumber

\* the checks of import_timeline_data, in the order of the code; "" when all pass
ImportTimelineError(upload) ==
    IF ~FilenameOk(upload) THEN "Formato de arquivo invalido"
    ELSE IF ~(required_cols \subseteq upload.cols) THEN "O arquivo deve ter as colunas"
    ELSE IF \E k \in 1..Len(upload.rows) : to_datetime(upload.rows[k]["Data"]) = NaT
         THEN "Datas invalidas no arquivo"
    ELSE IF \E k \in 1..Len(upload.rows) :
                ParseNum(upload.rows[k]["Quantidade (Kg)"]) = NotANumber
         THEN "Valores de quantidade invalidos no arquivo"
    ELSE ""

\* a variant that converts and saves the events that do parse
TimelineAfterImportPartial(upload, file, old) ==
    IF FilenameOk(upload) /\ required_cols \subseteq upload.cols
    THEN process_timeline_data(
             [cols |-> upload.cols, rows |-> SelectSeq(upload.rows, EventOk)], file)
    ELSE old

\* a variant that adds the imported records to the stored ones
TimelineAfterImportAppend(upload, file, old) ==
    IF ImportTimelineError(upload) = "" THEN old \o process_timeline_data(upload, file)
    ELSE old

\* TIMELINE_FILE after import_timeline_data(upload); old is its content before
TimelineAfterImport(upload, file, old) ==
    IF ImportTimelineError(upload) = "" THEN process_timeline_data(upload, file)
    ELSE old

\* @app.route('/import_timeline_data')
ImportTimelineData(upload) ==
    /\ sent' = upload
    /\ timelineFile' = TimelineAfterImport(upload, dataFile, timelineFile)
    /\ dataFile' = IF ImportTimelineError(upload) = "" THEN FileAfterLoad(dataFile)
                   ELSE dataFile
    /\ resp' = IF ImportTimelineError(upload) = ""
               THEN [code |-> 200, n |-> Len(timelineFile')]
               ELSE [code |-> 400, n |-> 0]
    /\ op' = "import_timeline_data"
    /\ UNCHANGED <<df, view>>
    /\ UNCHANGED genVars

\* Uploaded sheets
SheetRow(data, cultivar, kg) ==
    [c \in required_cols |->
        CASE c = "Data"            -> data
          [] c = "Cultivar"        -> cultivar
          [] c = "Quantidade (Kg)" -> kg
          [] c = "Turno"           -> "Tarde"
          [] OTHER                 -> "Ana"]

SheetFullRows ==
    {SheetRow(d, cu, kg) : d \in {"2025-01-05", "31/02/2025"},
                           cu \in {"A", "C"}, kg \in {"15000", "90", "abc"}}

Uploads(n) ==
    {[filename |-> "eventos.txt", cols |-> required_cols, rows |-> <<>>]} \cup
    UNION {{[filename |-> "eventos.xlsx", cols |-> cs, rows |-> rs] :
               rs \in SeqsUpTo(RowsOver(SheetFullRows, cs), n)} :
           cs \in {required_cols, required_cols \ {"Quantidade (Kg)"}}}

\* Record stores for the lookup: cultivars A and B in categories X and Y
LookupFullRows ==
    {CsvRow(cu, "400", "1000", "400", ca, "OK", "") :
        cu \in {"A", "B"}, ca \in {"X", "Y"}}

\* a timeline record left by an earlier import
EarlierRecord == [Data |-> 0 - 40, Cultivar |-> "B", Categoria |-> "Y", Volume_SC |-> Fx(10)]

ImportTimelineOnce ==
    /\ op = "none"
    /\ \E upload \in Uploads(MaxEvents) : ImportTimelineData(upload)

InitTimeline ==
    /\ IsFileOver(dataFile, LookupFullRows, {RawCols}, MaxRows)
    /\ timelineFile \in {<<>>, <<EarlierRecord>>}
    /\ op = "none"
    /\ df = EmptyFrame
    /\ sent = EmptyFrame
    /\ resp = [code |-> 0, n |-> 0]
    /\ view = <<>>
    /\ GenIdle

NextTimeline == ImportTimelineOnce

SpecTimeline == InitTimeline /\ [][NextTimeline]_vars

-----------------------------------------------------------------------------
(* The graph functions: what each one plots.  A view is the table handed   *)
(* to Plotly (rows), or the "no data" placeholder the function returns.    *)

RECURSIVE SumOver(_, _, _)
\* sum of column c over the rows of s whose index is in idx
SumOver(s, c, idx) ==
    IF idx = {} THEN 0
    ELSE LET i == CHOOSE j \in idx : TRUE
         IN  Num(s[i][c]) + SumOver(s, c, idx \ {i})

RowsOf(frame, cultivar) ==
    {i \in 1..Len(frame.rows) : frame.rows[i]["Cultivar"] = cultivar}

Placeholder(kind) == [kind |-> kind, placeholder |-> TRUE, rows |-> <<>>]

\* groupby('Cultivar') leaves out the rows whose Cultivar is NaN
GroupKeys(frame) ==
    {frame.rows[i]["Cultivar"] : i \in 1..Len(frame.rows)} \ {NaN}

\* create_bar_grouped_graph: totals per Cultivar, groups with a forecast only
create_bar_grouped_graph(frame) ==
    IF Len(frame.rows) = 0 \/ SumOver(frame.rows, "Prev_Receb", 1..Len(frame.rows)) = 0
    THEN Placeholder("bar_grouped")
    ELSE LET total(cu, c) == SumOver(frame.rows, c, RowsOf(frame, cu))
             kept == {cu \in GroupKeys(frame) : total(cu, "Prev_Receb") > 0}
         IN  [kind |-> "bar_grouped", placeholder |-> FALSE,
              rows |-> [cu \in kept |->
                          [Total_Previsto |-> total(cu, "Prev_Receb"),
                           Total_Recebido |-> total(cu, "Recepcao")]]]

\* sort_values(by, ascending): the element at index i goes to position 1 + the
\* number of elements before it; equal keys keep their order (a stable sort,
\* what numpy's sort does for short columns)
sort_values(s, by, ascending) ==
    LET Before(x, y) == IF ascending THEN x[by] < y[by] ELSE x[by] > y[by]
        Rank(i) == 1 + Cardinality({j \in 1..Len(s) :
                          Before(s[j], s[i]) \/ (~Before(s[i], s[j]) /\ j < i)})
    IN  [k \in 1..Len(s) |-> s[CHOOSE i \in 1..Len(s) : Rank(i) = k]]

HasForecast(row) == Num(row["Prev_Receb"]) > 0

DiffEntry(row) ==
    [Cultivar |-> row["Cultivar"],
     Diferenca |-> Num(row["Recepcao"]) - Num(row["Prev_Receb"])]

DiffTable(rows) ==
    sort_values([k \in 1..Len(rows) |-> DiffEntry(rows[k])], "Diferenca", FALSE)

\* a variant without the filter on Prev_Receb
create_diff_bar_graph_unfiltered(frame) ==
    IF Len(frame.rows) = 0 THEN Placeholder("diff_bar")
    ELSE [kind |-> "diff_bar", placeholder |-> FALSE, rows |-> DiffTable(frame.rows)]

\* create_diff_bar_graph: Recepcao - Prev_Receb of the rows with Prev_Receb > 0,
\* largest first
create_diff_bar_graph(frame) ==
    IF Len(frame.rows) = 0 THEN Placeholder("diff_bar")
    ELSE [kind |-> "diff_bar", placeholder |-> FALSE,
          rows |-> DiffTable(SelectSeq(frame.rows, HasForecast))]

PercentEntry(row) ==
    [Cultivar |-> row["Cultivar"], Percent |-> Num(row[PercentCol])]

\* create_percent_bar_graph: '%' of the rows with Prev_Receb > 0, smallest first
create_percent_bar_graph(frame) ==
    IF Len(frame.rows) = 0 THEN Placeholder("percent_bar")
    ELSE LET kept == SelectSeq(frame.rows, HasForecast)
         IN  [kind |-> "percent_bar", placeholder |-> FALSE,
              rows |-> sort_values([k \in 1..Len(kept) |-> PercentEntry(kept[k])],
                                   "Percent", TRUE)]

\* create_sankey_graph: one edge Cultivar -> Status per row with Prev_Receb > 0,
\* weighted by Prev_Receb
create_sankey_graph(frame) ==
    IF Len(frame.rows) = 0 \/ SumOver(frame.rows, "Prev_Receb", 1..Len(frame.rows)) = 0
    THEN Placeholder("sankey")
    ELSE LET sankey_df == SelectSeq(frame.rows, HasForecast)
         IN  IF Len(sankey_df) = 0 THEN Placeholder("sankey")
             ELSE [kind |-> "sankey", placeholder |-> FALSE,
                   rows |-> [k \in 1..Len(sankey_df) |->
                               [source |-> sankey_df[k]["Cultivar"],
                                target |-> sankey_df[k]["Status"],
                                value  |-> Num(sankey_df[k]["Prev_Receb"])]]]

\* a variant without the test of df.empty
create_category_stacked_graph_unguarded(frame) ==
    LET RowsIn(ca) == {i \in 1..Len(frame.rows) : frame.rows[i]["Categoria"] = ca}
        cats == {frame.rows[i]["Categoria"] : i \in 1..Len(frame.rows)} \ {NaN}
    IN  [kind |-> "category_stacked", placeholder |-> FALSE,
         rows |-> [ca \in cats |->
                     [Prev_Receb |-> SumOver(frame.rows, "Prev_Receb", RowsIn(ca)),
                      Recepcao   |-> SumOver(frame.rows, "Recepcao", RowsIn(ca))]]]

\* create_category_stacked_graph: totals per Categoria
create_category_stacked_graph(frame) ==
    IF Len(frame.rows) = 0 THEN Placeholder("category_stacked")
    ELSE LET RowsIn(ca) == {i \in 1..Len(frame.rows) : frame.rows[i]["Categoria"] = ca}
             cats == {frame.rows[i]["Categoria"] : i \in 1..Len(frame.rows)} \ {NaN}
         IN  [kind |-> "category_stacked", placeholder |-> FALSE,
              rows |-> [ca \in cats |->
                          [Prev_Receb |-> SumOver(frame.rows, "Prev_Receb", RowsIn(ca)),
                           Recepcao   |-> SumOver(frame.rows, "Recepcao", RowsIn(ca))]]]

TopN == 10          \* df.nlargest(10, 'Recepcao')

TopEntry(row) == [Cultivar |-> row["Cultivar"], Recepcao |-> Num(row["Recepcao"])]

\* create_top_cultivars_graph: the TopN rows with the largest Recepcao
create_top_cultivars_graph(frame) ==
    IF Len(frame.rows) = 0 THEN Placeholder("top_cultivars")
    ELSE LET sorted == sort_values([k \in 1..Len(frame.rows) |-> TopEntry(frame.rows[k])],
                                   "Recepcao", FALSE)
         IN  [kind |-> "top_cultivars", placeholder |-> FALSE,
              rows |-> SubSeq(sorted, 1, IF Len(sorted) < TopN THEN Len(sorted) ELSE TopN)]

RECURSIVE SumVolumeOver(_, _, _, _)
\* sum of Volume_SC over the records lo..hi of timeline whose index is in idx
\* (the range is halved so that the depth of the sum stays logarithmic)
SumVolumeOver(timeline, idx, lo, hi) ==
    IF lo > hi THEN 0
    ELSE IF lo = hi THEN (IF lo \in idx THEN timeline[lo].Volume_SC ELSE 0)
    ELSE LET mid == (lo + hi) \div 2
         IN  SumVolumeOver(timeline, idx, lo, mid) + SumVolumeOver(timeline, idx, mid + 1, hi)

\* create_timeline_graph, given what generate_sample_timeline_data returned:
\* per Categoria and date, the running total of the daily volumes
create_timeline_graph(timeline) ==
    IF Len(timeline) = 0 THEN Placeholder("timeline")
    ELSE LET cats == {timeline[i].Categoria : i \in 1..Len(timeline)}
             DatesOf(ca) == {timeline[i].Data : i \in {j \in 1..Len(timeline) :
                                                         timeline[j].Categoria = ca}}
             UpTo(ca, d) == {i \in 1..Len(timeline) :
                                timeline[i].Categoria = ca /\ timeline[i].Data <= d}
         IN  [kind |-> "timeline", placeholder |-> FALSE,
              rows |-> [ca \in cats |->
                          [d \in DatesOf(ca) |->
                              SumVolumeOver(timeline, UpTo(ca, d), 1, Len(timeline))]]]

\* what every graph route leaves alone
GraphFrame ==
    /\ dataFile' = FileAfterLoad(dataFile)
    /\ resp' = [code |-> 200, n |-> 0]
    /\ UNCHANGED <<timelineFile, sent>>
    /\ UNCHANGED genVars

\* df = load_and_process_data(); graph_html = create_bar_grouped_graph(df)
graph_bar_grouped ==
    /\ op = "none"
    /\ df' = load_and_process_data(dataFile)
    /\ view' = create_bar_grouped_graph(df')
    /\ op' = "bar_grouped"
    /\ GraphFrame

\* df = load_and_process_data(); graph_html = create_diff_bar_graph(df)
graph_diff_bar ==
    /\ op = "none"
    /\ df' = load_and_process_data(dataFile)
    /\ view' = create_diff_bar_graph(df')
    /\ op' = "diff_bar"
    /\ GraphFrame

\* df = load_and_process_data(); graph_html = create_percent_bar_graph(df)
graph_percent_bar ==
    /\ op = "none"
    /\ df' = load_and_process_data(dataFile)
    /\ view' = create_percent_bar_graph(df')
    /\ op' = "percent_bar"
    /\ GraphFrame

\* df = load_and_process_data(); fig = create_sankey_graph(df)
graph_sankey ==
    /\ op = "none"
    /\ df' = load_and_process_data(dataFile)
    /\ view' = create_sankey_graph(df')
    /\ op' = "sankey"
    /\ GraphFrame

\* df = load_and_process_data(); fig = create_category_stacked_graph(df)
graph_category_stacked ==
    /\ op = "none"
    /\ df' = load_and_process_data(dataFile)
    /\ view' = create_category_stacked_graph(df')
    /\ op' = "category_stacked"
    /\ GraphFrame

\* df = load_and_process_data(); fig = create_top_cultivars_graph(df)
graph_top_cultivars ==
    /\ op = "none"
    /\ df' = load_and_process_data(dataFile)
    /\ view' = create_top_cultivars_graph(df')
    /\ op' = "top_cultivars"
    /\ GraphFrame

\* Record stores for the graphs: one or two cultivars, with and without forecast
GraphFullRows ==
    {CsvRow(cu, "400", pr, rc, "X", "OK", "") :
        cu \in {"A", "B", ""}, pr \in {"0", "1000"}, rc \in {"0", "400"}}

InitViews ==
    /\ IsFileOver(dataFile, GraphFullRows, {RawCols}, MaxRows)
    /\ timelineFile = <<>>
    /\ op = "none"
    /\ df = EmptyFrame
    /\ sent = EmptyFrame
    /\ resp = [code |-> 0, n |-> 0]
    /\ view = <<>>
    /\ GenIdle

NextViews == graph_bar_grouped \/ graph_diff_bar \/ graph_percent_bar

SpecViews == InitViews /\ [][NextViews]_vars

-----------------------------------------------------------------------------
(* generate_sample_timeline_data, one action per step of its loops.  The   *)
(* results of random.randint are read from rng: a pattern of draws and a   *)
(* pattern of day steps, each repeated for as long as the loops run.       *)

NumDraws == 3       \* how many values of randint(100, 1000) the model draws from
StreamLen == 2      \* length of the repeated patterns of draws and of steps

RandLo == 100       \* random.randint(100, 1000)
RandHi == 1000
StepLo == 1         \* random.randint(1, 3)
StepHi == 3
DaysBack == 60      \* start_date = now - 60 days

DrawValues ==
    {Fx(RandLo + k * ((RandHi - RandLo) \div (NumDraws - 1))) : k \in 0..(NumDraws - 1)}

Streams(n) ==
    {[draws |-> d, steps |-> t, k |-> 0] :
        d \in [1..n -> DrawValues], t \in [1..n -> StepLo..StepHi]}

NextDraw == rng.draws[(rng.k % Len(rng.draws)) + 1]
\* a variant in which the date does not advance
NextStepZero == StepLo - 1

NextStep == rng.steps[(rng.k % Len(rng.steps)) + 1]

Min(a, b) == IF a <= b THEN a ELSE b

\* a variant that takes the whole draw
daily_volume_unclamped(draw, rem) == draw

\* daily_volume = min(random.randint(100, 1000), remaining)
daily_volume(draw, rem) == Min(draw, rem)

\* a variant that generates whenever there are records, whatever the timeline
\* store holds
GenStartAlways ==
    /\ pc = "idle" /\ op = "none"
    /\ df' = load_and_process_data(dataFile)
    /\ dataFile' = FileAfterLoad(dataFile)
    /\ IF Len(df'.rows) > 0
       THEN /\ pc' = "for"
            /\ rowIdx' = 1
            /\ UNCHANGED <<op, resp, view>>
       ELSE /\ pc' = "done"
            /\ op' = "graph_timeline"
            /\ resp' = [code |-> 200, n |-> Len(timelineFile)]
            /\ view' = create_timeline_graph(timelineFile)
            /\ UNCHANGED rowIdx
    /\ sample_data' = <<>>
    /\ UNCHANGED <<timelineFile, sent, remaining, current_date, rng>>

\* main_df = load_and_process_data(); timeline_df = load_timeline_data();
\* if timeline_df.empty and not main_df.empty: ...
GenStart ==
    /\ pc = "idle" /\ op = "none"
    /\ df' = load_and_process_data(dataFile)
    /\ dataFile' = FileAfterLoad(dataFile)
    /\ IF timelineFile = <<>> /\ Len(df'.rows) > 0
       THEN /\ pc' = "for"
            /\ rowIdx' = 1
            /\ UNCHANGED <<op, resp, view>>
       ELSE /\ pc' = "done"
            /\ op' = "graph_timeline"
            /\ resp' = [code |-> 200, n |-> Len(timelineFile)]
            /\ view' = create_timeline_graph(timelineFile)
            /\ UNCHANGED rowIdx
    /\ sample_data' = <<>>
    /\ UNCHANGED <<timelineFile, sent, remaining, current_date, rng>>

\* for _, row in main_df.iterrows(): if row['Recepcao'] > 0: ...
GenFor ==
    /\ pc = "for"
    /\ IF rowIdx > Len(df.rows)
       THEN /\ pc' = "save"
            /\ UNCHANGED <<rowIdx, remaining, current_date>>
       ELSE IF Num(df.rows[rowIdx]["Recepcao"]) > 0
       THEN /\ remaining' = Num(df.rows[rowIdx]["Recepcao"])
            /\ current_date' = 0 - DaysBack
            /\ pc' = "while"
            /\ UNCHANGED rowIdx
       ELSE /\ rowIdx' = rowIdx + 1
            /\ UNCHANGED <<pc, remaining, current_date>>
    /\ UNCHANGED <<dataFile, timelineFile, op, df, sent, resp, view, sample_data, rng>>

\* while remaining > 0 and current_date <= datetime.now(): one iteration
GenWhile ==
    /\ pc = "while"
    /\ IF remaining > 0 /\ current_date <= 0
       THEN LET daily == daily_volume(NextDraw, remaining)
            IN  /\ IF daily > 0
                   THEN /\ sample_data' = Append(sample_data,
                               [Data      |-> current_date,
                                Cultivar  |-> df.rows[rowIdx]["Cultivar"],
                                Categoria |-> df.rows[rowIdx]["Categoria"],
                                Volume_SC |-> daily])
                        /\ remaining' = remaining - daily
                   ELSE UNCHANGED <<sample_data, remaining>>
                /\ current_date' = current_date + NextStep
                /\ rng' = [rng EXCEPT !.k = (rng.k + 1) % Len(rng.draws)]
                /\ UNCHANGED <<pc, rowIdx>>
       ELSE /\ rowIdx' = rowIdx + 1
            /\ pc' = "for"
            /\ UNCHANGED <<sample_data, remaining, current_date, rng>>
    /\ UNCHANGED <<dataFile, timelineFile, op, df, sent, resp, view>>

\* if sample_data: save_timeline_data(sample_df); return sample_df
\* return timeline_df
GenSave ==
    /\ pc = "save"
    /\ timelineFile' = IF sample_data # <<>> THEN sample_data ELSE timelineFile
    /\ pc' = "done"
    /\ op' = "graph_timeline"
    /\ resp' = [code |-> 200, n |-> Len(timelineFile')]
    /\ view' = create_timeline_graph(timelineFile')
    /\ UNCHANGED <<dataFile, df, sent, rowIdx, remaining, current_date,
                   sample_data, rng>>

\* Record stores for the generator: cultivar names by position, receptions of
\* 0, 150.5 and 7000 SC
CultivarNames == <<"A", "B", "C", "D">>

GenFiles(n) ==
    {AbsentFile} \cup
    {[exists |-> TRUE, cols |-> RawCols,
      rows |-> [i \in 1..Len(rc) |->
                  [c \in RawCols |->
                      CsvRow(CultivarNames[i], "400", "1000", rc[i], "X", "OK", "")[c]]]] :
        rc \in SeqsUpTo({"0", "150.5", "7000"}, n)}

InitGen ==
    /\ dataFile \in GenFiles(MaxRows)
    /\ timelineFile \in {<<>>, <<EarlierRecord>>}
    /\ op = "none"
    /\ df = EmptyFrame
    /\ sent = EmptyFrame
    /\ resp = [code |-> 0, n |-> 0]
    /\ view = <<>>
    /\ pc = "idle"
    /\ rowIdx = 0
    /\ remaining = 0
    /\ current_date = 0
    /\ sample_data = <<>>
    /\ rng \in Streams(StreamLen)

NextGen == GenStart \/ GenFor \/ GenWhile \/ GenSave

SpecGen == InitGen /\ [][NextGen]_vars

\* the same with the scheduling of a call that, once begun, runs to its return
SpecGenFair ==
    SpecGen /\ WF_vars(GenFor) /\ WF_vars(GenWhile) /\ WF_vars(GenSave)

\* return sample_df / return timeline_df: the request is over, another may come
GenReturn ==
    /\ pc = "done"
    /\ pc' = "idle"
    /\ op' = "none"
    /\ UNCHANGED <<dataFile, timelineFile, df, sent, resp, view, rowIdx, remaining,
                   current_date, sample_data, rng>>

InitGenAgain ==
    /\ dataFile \in GenFiles(MaxRows)
    /\ timelineFile \in {<<>>, <<EarlierRecord>>}
    /\ op = "none"
    /\ df = EmptyFrame
    /\ sent = EmptyFrame
    /\ resp = [code |-> 0, n |-> 0]
    /\ view = <<>>
    /\ pc = "idle"
    /\ rowIdx = 0
    /\ remaining = 0
    /\ current_date = 0
    /\ sample_data = <<>>
    /\ rng \in Streams(1)

NextGenAgain == NextGen \/ GenReturn

\* calls of generate_sample_timeline_data one after the other
SpecGenAgain == InitGenAgain /\ [][NextGenAgain]_vars

-----------------------------------------------------------------------------
(* One request for any of the seven aggregation views *)

NextAllViews ==
    \/ graph_bar_grouped
    \/ graph_category_stacked
    \/ graph_sankey
    \/ graph_diff_bar
    \/ graph_percent_bar
    \/ graph_top_cultivars
    \/ NextGen

SpecAllViews == InitGen /\ [][NextAllViews]_vars

-----------------------------------------------------------------------------
(* register_cultivar and import_data, and sequences of requests that write  *)
(* the record store                                                         *)

\* a form field that was not sent: request.form.get returns its default
NotSent == "<not sent>"

\* float(request.form.get(field, 0)): the number, or NotANumber where float()
\* raises ValueError
FormFloat(t) == IF t = NotSent THEN 0 ELSE ParseNum(t)

FormOk(form) ==
    /\ FormFloat(form.prev_colheita) # NotANumber
    /\ FormFloat(form.prev_receb) # NotANumber
    /\ FormFloat(form.recepcao) # NotANumber

\* pd.DataFrame([new_cultivar_data], columns=df.columns): '%' is missing
new_df_row(form) ==
    [c \in RawCols \cup {PercentCol} |->
        CASE c = "Cultivar"      -> IF form.cultivar = NotSent THEN NaN ELSE form.cultivar
          [] c = "Categoria"     -> IF form.categoria = NotSent THEN NaN ELSE form.categoria
          [] c = "Prev_Colheita" -> FloatText(FormFloat(form.prev_colheita))
          [] c = "Prev_Receb"    -> FloatText(FormFloat(form.prev_receb))
          [] c = "Recepcao"      -> FloatText(FormFloat(form.recepcao))
          [] c = "Status"        -> EmAndamento
          [] OTHER               -> NaN]

\* DATA_FILE after register_cultivar(form): load, concat, save_dataframe
DataAfterRegister(form, file) ==
    IF FormOk(form)
    THEN LET loaded == load_and_process_data(file)
         IN  save_dataframe([cols |-> loaded.cols,
                             rows |-> Append(loaded.rows, new_df_row(form))])
    ELSE file

\* a variant that also rewrites the Categoria of the stored timeline records
\* from the new record set
RegisterCultivarResync(form) ==
    /\ sent' = form
    /\ dataFile' = DataAfterRegister(form, dataFile)
    /\ df' = IF FormOk(form) THEN load_and_process_data(dataFile) ELSE df
    /\ resp' = IF FormOk(form) THEN [code |-> 200, n |-> 0] ELSE [code |-> 500, n |-> 0]
    /\ op' = "register_cultivar"
    /\ timelineFile' =
          [k \in 1..Len(timelineFile) |->
              [timelineFile[k] EXCEPT
                  !.Categoria = cultivar_to_category(load_and_process_data(dataFile'),
                                                     timelineFile[k].Cultivar)]]
    /\ UNCHANGED view
    /\ UNCHANGED genVars

\* @app.route('/register')
RegisterCultivar(form) ==
    /\ sent' = form
    /\ dataFile' = DataAfterRegister(form, dataFile)
    /\ df' = IF FormOk(form) THEN load_and_process_data(dataFile) ELSE df
    /\ resp' = IF FormOk(form) THEN [code |-> 200, n |-> 0] ELSE [code |-> 500, n |-> 0]
    /\ op' = "register_cultivar"
    /\ UNCHANGED <<timelineFile, view>>
    /\ UNCHANGED genVars

data_required_cols == {"Cultivar", "Prev_Colheita", "Prev_Receb", "Recepcao", "Categoria"}

\* pd.read_excel: the sheet's cells, an empty cell or an NA string read as NaN
read_excel(upload) ==
    [cols |-> upload.cols,
     rows |-> [i \in 1..Len(upload.rows) |->
                 [c \in upload.cols |->
                     IF upload.rows[i][c] \in NAStrings THEN NaN
                     ELSE upload.rows[i][c]]]]

\* the checks of import_data, in the order of the code; "" when all pass
ImportDataError(upload) ==
    IF ~FilenameOk(upload) THEN "Formato de arquivo invalido"
    ELSE IF ~(data_required_cols \subseteq upload.cols)
         THEN "O arquivo Excel deve ter as colunas"
    ELSE ""

\* if 'Status' not in imported_df.columns: imported_df['Status'] = 'Em Andamento'
WithDefaultStatus(frame) ==
    IF "Status" \in frame.cols THEN frame
    ELSE SetStatus(frame, [i \in 1..Len(frame.rows) |-> EmAndamento])

\* a variant that saves whatever columns the sheet has
DataAfterImportUnchecked(upload, old) ==
    IF FilenameOk(upload) THEN save_dataframe(WithDefaultStatus(read_excel(upload)))
    ELSE old

\* DATA_FILE after import_data(upload); old is its content before
DataAfterImport(upload, old) ==
    IF ImportDataError(upload) = ""
    THEN save_dataframe(WithDefaultStatus(read_excel(upload)))
    ELSE old

\* @app.route('/import_data')
ImportData(upload) ==
    /\ sent' = upload
    /\ dataFile' = DataAfterImport(upload, dataFile)
    /\ resp' = IF ImportDataError(upload) = "" THEN [code |-> 200, n |-> 0]
               ELSE [code |-> 400, n |-> 0]
    /\ op' = "import_data"
    /\ UNCHANGED <<timelineFile, df, view>>
    /\ UNCHANGED genVars

\* Requests of the model: bodies of /update_data, forms of /register, sheets of
\* /import_data and of /import_timeline_data
PostedRows ==
    {[c \in RawCols |-> CsvRow("A", "400", "1000", rc, ca, st, "")[c]] :
        rc \in {"0", "1000"}, ca \in {"X", "Y"}, st \in {"", "OK"}}

PostedFrames == {[cols |-> RawCols, rows |-> <<r>>] : r \in PostedRows}

Forms ==
    {[cultivar |-> "B", categoria |-> "Y", prev_colheita |-> NotSent,
      prev_receb |-> pr, recepcao |-> rc] :
        pr \in {"1000", "abc"}, rc \in {"400", NotSent}}

DataSheetRows ==
    {CsvRow("C", "400", "1000", "400", "X", st, "") : st \in {"", "OK"}}

DataUploads ==
    {[filename |-> "dados.txt", cols |-> RawCols, rows |-> <<>>]} \cup
    UNION {{[filename |-> "dados.xlsx", cols |-> cs, rows |-> <<r>>] :
               r \in RowsOver(DataSheetRows, cs)} :
           cs \in {RawCols, data_required_cols, RawCols \ {"Categoria"},
                   data_required_cols \ {"Prev_Receb"}}}

TimelineSheets ==
    {[filename |-> "eventos.xlsx", cols |-> required_cols,
      rows |-> <<SheetRow("2025-01-05", "A", "15000")>>]}

StoreFullRows ==
    {CsvRow(cu, "400", "1000", rc, ca, st, "") :
        cu \in {"A", ""}, rc \in {"0", "1000"}, ca \in {"X", ""}, st \in {"", "OK"}}

StoreUpdate == \E data \in PostedFrames : UpdateData(data)

StoreRegister ==
    /\ Len(dataFile.rows) < MaxRows
    /\ \E form \in Forms : RegisterCultivar(form)

StoreImport == \E upload \in DataUploads : ImportData(upload)

StoreImportTimeline == \E upload \in TimelineSheets : ImportTimelineData(upload)

InitStore ==
    /\ IsFileOver(dataFile, StoreFullRows, {RawCols, RawCols \ {"Status"}}, MaxRows - 1)
    /\ timelineFile = <<>>
    /\ op = "none"
    /\ df = EmptyFrame
    /\ sent = EmptyFrame
    /\ resp = [code |-> 0, n |-> 0]
    /\ view = <<>>
    /\ GenIdle

NextStore ==
    \/ GetData
    \/ UpdateDataEcho
    \/ StoreUpdate
    \/ StoreRegister
    \/ StoreImport
    \/ StoreImportTimeline

SpecStore == InitStore /\ [][NextStore]_vars

-----------------------------------------------------------------------------
(* Properties of load_and_process_data and save_dataframe (SpecLoad) *)

Abs(x) == IF x < 0 THEN 0 - x ELSE x

\* pct (in hundredths of a percent) is the quotient r/p * 100 rounded to two
\* places: no hundredth is nearer, and of two equally near ones it is the even
NearestHundredth(pct, r, p) ==
    LET g  == Gcd(r, p)
        r1 == r \div g
        p1 == p \div g
        d  == Abs(pct * p1 - r1 * 100 * Scale)
    IN  /\ pct >= 0
        /\ 2 * d <= p1
        /\ (2 * d = p1 => pct % 2 = 0)

\* the row's Status is what the ordered automatic rule gives for its volumes
AutoStatus(row) ==
    LET p   == Num(row["Prev_Receb"])
        r   == Num(row["Recepcao"])
        pct == Num(row[PercentCol])
    IN  /\ (p = 0 => row["Status"] = PrevInvalida)
        /\ (p # 0 /\ pct >= Fx(100) => row["Status"] = OK)
        /\ (p # 0 /\ pct < Fx(100) /\ r > 0 => row["Status"] = EmAndamento)
        /\ (p # 0 /\ pct < Fx(100) /\ r <= 0 => row["Status"] = FaltaReceber)

Loaded == op \in {"get_data", "update_data"}

StoredStatusEmpty(i) == dataFile.rows[i]["Status"] \in NAStrings

\* C1: in every record load_and_process_data returns, '%' is Recepcao /
\* Prev_Receb * 100 rounded to two places when Prev_Receb is not 0, and 0 when
\* it is 0, whatever the file held (a stored '%' column included).
C1_PercentRecomputed ==
    Loaded =>
        \A i \in 1..Len(df.rows) :
            LET p   == Num(df.rows[i]["Prev_Receb"])
                r   == Num(df.rows[i]["Recepcao"])
                pct == Num(df.rows[i][PercentCol])
            IN  /\ p # NotANumber /\ r # NotANumber /\ pct # NotANumber
                /\ IF p = 0 THEN pct = 0 ELSE NearestHundredth(pct, r, p)

\* a file with a stored '%' column was loaded: 400/7*100 = 5714.2857.. rounds
\* up to 5714.29, and a row without forecast but with reception has 0
C1_Witness ==
    /\ op = "get_data"
    /\ PercentCol \in dataFile.cols
    /\ \E i, j \in 1..Len(df.rows) :
        /\ dataFile.rows[i][PercentCol] = "999"
        /\ df.rows[i]["Prev_Receb"] = "7.0" /\ df.rows[i]["Recepcao"] = "400.0"
        /\ df.rows[i][PercentCol] = "5714.29"
        /\ df.rows[j]["Prev_Receb"] = "0.0" /\ df.rows[j]["Recepcao"] = "400.0"
        /\ df.rows[j][PercentCol] = "0.0"

\* C2: when the file has a Status column that is empty in every row, every
\* returned row's Status follows the ordered rule Prev. Invalida / OK /
\* Em Andamento / Falta Receber.
C2_AutoStatusWhenAllEmpty ==
    (/\ Loaded
     /\ "Status" \in dataFile.cols
     /\ \A i \in 1..Len(dataFile.rows) : StoredStatusEmpty(i))
    => /\ Len(df.rows) = Len(dataFile.rows)
       /\ \A i \in 1..Len(df.rows) : AutoStatus(df.rows[i])

\* two rows with empty Status: no forecast but reception gives Prev. Invalida,
\* reception of 1000 against a forecast of 7 gives OK
C2_Witness ==
    /\ op = "get_data"
    /\ dataFile.cols = RawCols
    /\ Len(dataFile.rows) = 2
    /\ \A i \in 1..2 : dataFile.rows[i]["Status"] = ""
    /\ dataFile.rows[1]["Prev_Receb"] = "0" /\ dataFile.rows[1]["Recepcao"] = "400"
    /\ df.rows[1]["Status"] = PrevInvalida
    /\ dataFile.rows[2]["Prev_Receb"] = "7" /\ dataFile.rows[2]["Recepcao"] = "1000"
    /\ df.rows[2]["Status"] = OK

\* C3 (as claimed): when the file has no Status column, every returned row's
\* Status follows the automatic rule.
C3_AutoStatusWhenColumnAbsent ==
    (op = "get_data" /\ "Status" \notin dataFile.cols)
    => \A i \in 1..Len(df.rows) : AutoStatus(df.rows[i])

\* C4: when the file has a Status column with at least one non-empty cell,
\* every non-empty cell is returned as stored and every empty one as
\* Em Andamento.
C4_StatusSticky ==
    (/\ Loaded
     /\ "Status" \in dataFile.cols
     /\ \E i \in 1..Len(dataFile.rows) : ~StoredStatusEmpty(i))
    => /\ Len(df.rows) = Len(dataFile.rows)
       /\ \A i \in 1..Len(df.rows) :
            df.rows[i]["Status"] =
                IF StoredStatusEmpty(i) THEN EmAndamento
                ELSE dataFile.rows[i]["Status"]

\* a stored OK survives on a row the rule would call Falta Receber, and the
\* empty cell of a row the rule would call Prev. Invalida becomes Em Andamento
C4_Witness ==
    /\ op = "get_data"
    /\ dataFile.cols = RawCols
    /\ Len(dataFile.rows) = 2
    /\ dataFile.rows[1]["Status"] = "OK"
    /\ dataFile.rows[1]["Prev_Receb"] = "1000" /\ dataFile.rows[1]["Recepcao"] = "abc"
    /\ df.rows[1]["Status"] = OK
    /\ dataFile.rows[2]["Status"] = ""
    /\ dataFile.rows[2]["Prev_Receb"] = "0"
    /\ df.rows[2]["Status"] = EmAndamento

\* C5 (as claimed): saving a canonical set and loading it again returns the
\* same seven values in every row.
C5_SaveLoadRoundTrip ==
    op = "update_data" =>
        /\ Len(df.rows) = Len(sent.rows)
        /\ \A i \in 1..Len(df.rows) :
            \A c \in RawCols \cup {PercentCol} : df.rows[i][c] = sent.rows[i][c]

-----------------------------------------------------------------------------
(* Properties of import_timeline_data (SpecTimeline) *)

\* a required column is missing, or some event has a date or a quantity that
\* does not parse
UploadInvalid(upload) ==
    \/ ~(required_cols \subseteq upload.cols)
    \/ \E k \in 1..Len(upload.rows) :
          \/ to_datetime(upload.rows[k]["Data"]) = NaT
          \/ ParseNum(upload.rows[k]["Quantidade (Kg)"]) = NotANumber

\* the Categoria of the first (last) stored record whose Cultivar is c
StoredCategoria(pick(_), c) ==
    LET main == load_and_process_data(dataFile).rows
        idx  == {i \in 1..Len(main) : main[i]["Cultivar"] = c}
    IN  IF idx = {} THEN "N/A" ELSE main[pick(idx)]["Categoria"]

MinOf(S) == CHOOSE i \in S : \A j \in S : i <= j
MaxOf(S) == CHOOSE i \in S : \A j \in S : i >= j

ImportedOk == op = "import_timeline_data" /\ resp.code = 200

\* C6: an import with a missing required column, an unparsable date or an
\* unparsable quantity answers with an error and leaves the timeline store
\* exactly as it was.
C6_ImportAllOrNothing ==
    [][(op' = "import_timeline_data" /\ UploadInvalid(sent'))
        => (resp'.code # 200 /\ timelineFile' = timelineFile)]_vars

\* a sheet of one good and one bad event was refused; the earlier record stays
C6_Witness ==
    /\ op = "import_timeline_data"
    /\ resp.code = 400
    /\ required_cols \subseteq sent.cols
    /\ Len(sent.rows) = 2
    /\ EventOk(sent.rows[1]) /\ ~EventOk(sent.rows[2])
    /\ timelineFile = <<EarlierRecord>>

\* C7 (as claimed): every imported event gets the Categoria of the FIRST
\* stored record with its Cultivar, or N/A when there is none.
C7_FirstSeenWins ==
    ImportedOk =>
        \A k \in 1..Len(timelineFile) :
            timelineFile[k].Categoria = StoredCategoria(MinOf, sent.rows[k]["Cultivar"])

\* C7 (amended): every imported event gets the Categoria of the LAST stored
\* record with its Cultivar, or N/A when there is none.
C7_LastSeenWins ==
    ImportedOk =>
        /\ Len(timelineFile) = Len(sent.rows)
        /\ \A k \in 1..Len(timelineFile) :
            timelineFile[k].Categoria = StoredCategoria(MaxOf, sent.rows[k]["Cultivar"])

\* cultivar A is stored twice, in category X and then Y: the event of A got Y
\* and the event of the unknown cultivar C got N/A
C7_Witness ==
    /\ ImportedOk
    /\ Len(dataFile.rows) = 2
    /\ dataFile.rows[1]["Cultivar"] = "A" /\ dataFile.rows[1]["Categoria"] = "X"
    /\ dataFile.rows[2]["Cultivar"] = "A" /\ dataFile.rows[2]["Categoria"] = "Y"
    /\ Len(timelineFile) = 2
    /\ timelineFile[1].Cultivar = "A" /\ timelineFile[1].Categoria = "Y"
    /\ timelineFile[2].Cultivar = "C" /\ timelineFile[2].Categoria = "N/A"

\* C12: a successful import stores one record per event, in order, with the
\* event's date and Cultivar and with Volume_SC = Quantidade (Kg) / 60, and
\* reports as many records as there were events.
C12_OneRecordPerEvent ==
    ImportedOk =>
        /\ Len(timelineFile) = Len(sent.rows)
        /\ resp.n = Len(sent.rows)
        /\ \A k \in 1..Len(sent.rows) :
              /\ timelineFile[k].Data = to_datetime(sent.rows[k]["Data"])
              /\ timelineFile[k].Cultivar = sent.rows[k]["Cultivar"]
              /\ timelineFile[k].Volume_SC * KgPerSC
                     = ParseNum(sent.rows[k]["Quantidade (Kg)"])

\* events of 15000 kg and of 90 kg were stored as 250.0 and 1.5 SC
C12_Witness ==
    /\ ImportedOk
    /\ resp.n = 2
    /\ sent.rows[1]["Quantidade (Kg)"] = "15000" /\ timelineFile[1].Volume_SC = Fx(250)
    /\ sent.rows[2]["Quantidade (Kg)"] = "90" /\ timelineFile[2].Volume_SC = Fx(1) + 50

\* C16: after a successful import the timeline store holds one record per
\* event of that import, in order, and none of the records it held before.
C16_ImportReplacesStore ==
    [][(op' = "import_timeline_data" /\ resp'.code = 200) =>
          /\ Len(timelineFile') = Len(sent'.rows)
          /\ \A k \in 1..Len(timelineFile') :
                /\ timelineFile'[k].Data = to_datetime(sent'.rows[k]["Data"])
                /\ timelineFile'[k].Cultivar = sent'.rows[k]["Cultivar"]
                /\ \A j \in 1..Len(timelineFile) : timelineFile'[k] # timelineFile[j]]_vars

\* an import of one event of cultivar A succeeded: the store holds that record
\* alone, the record of cultivar B of the earlier import is gone
C16_Witness ==
    /\ ImportedOk
    /\ Len(sent.rows) = 1
    /\ Len(timelineFile) = 1
    /\ timelineFile[1].Cultivar = "A"
    /\ timelineFile[1] # EarlierRecord

-----------------------------------------------------------------------------
(* Properties of the graph functions (SpecViews) *)

\* the loaded rows without those whose Prev_Receb is 0
WithoutZeroForecast(frame) ==
    LET Keep(row) == Num(row["Prev_Receb"]) # 0
    IN  [cols |-> frame.cols, rows |-> SelectSeq(frame.rows, Keep)]

\* the table is made of the rows with a forecast, one entry each
OnlyForecastRows(table, Entry(_)) ==
    LET kept == {i \in 1..Len(df.rows) : Num(df.rows[i]["Prev_Receb"]) > 0}
    IN  /\ Len(table) = Cardinality(kept)
        /\ \A k \in 1..Len(table) : \E i \in kept : table[k] = Entry(df.rows[i])
        /\ \A i \in kept : \E k \in 1..Len(table) : table[k] = Entry(df.rows[i])

\* C8 (as claimed): what each of the three views plots is what it would plot
\* were the rows with Prev_Receb = 0 not there.
C8_ZeroForecastRowsExcluded ==
    /\ op = "bar_grouped" => view.rows = create_bar_grouped_graph(WithoutZeroForecast(df)).rows
    /\ op = "diff_bar" => view.rows = create_diff_bar_graph(WithoutZeroForecast(df)).rows
    /\ op = "percent_bar" => view.rows = create_percent_bar_graph(WithoutZeroForecast(df)).rows

\* C8 (amended): Difference and PercentRanked plot the rows with Prev_Receb > 0
\* and no other; ByCultivar plots the cultivars whose Prev_Receb sum is > 0 and
\* no other, each with the sums of Prev_Receb and of Recepcao over ALL its
\* rows, those with Prev_Receb = 0 included.
C8_ExclusionPerView ==
    /\ op = "diff_bar" => OnlyForecastRows(view.rows, DiffEntry)
    /\ op = "percent_bar" => OnlyForecastRows(view.rows, PercentEntry)
    /\ op = "bar_grouped" =>
        /\ \A cu \in GroupKeys(df) :
              (~view.placeholder /\ cu \in DOMAIN view.rows)
                  <=> SumOver(df.rows, "Prev_Receb", RowsOf(df, cu)) > 0
        /\ ~view.placeholder =>
              \A cu \in DOMAIN view.rows :
                 /\ cu \in GroupKeys(df)
                 /\ view.rows[cu].Total_Previsto = SumOver(df.rows, "Prev_Receb", RowsOf(df, cu))
                 /\ view.rows[cu].Total_Recebido = SumOver(df.rows, "Recepcao", RowsOf(df, cu))

\* cultivar A has a row with a forecast and no reception and a row without
\* forecast that received 400: ByCultivar plots 400 received for A
C8_Witness ==
    /\ op = "bar_grouped"
    /\ Len(df.rows) = 2
    /\ df.rows[1]["Cultivar"] = "A" /\ df.rows[2]["Cultivar"] = "A"
    /\ Num(df.rows[1]["Prev_Receb"]) > 0 /\ Num(df.rows[1]["Recepcao"]) = 0
    /\ Num(df.rows[2]["Prev_Receb"]) = 0 /\ Num(df.rows[2]["Recepcao"]) = Fx(400)
    /\ ~view.placeholder
    /\ view.rows["A"].Total_Recebido = Fx(400)

-----------------------------------------------------------------------------
(* Properties of generate_sample_timeline_data (SpecGen) *)

RECURSIVE SumVolume(_, _)
\* total Volume_SC of the records of s generated for the cultivar
SumVolume(s, cultivar) ==
    IF s = <<>> THEN 0
    ELSE (IF Head(s).Cultivar = cultivar THEN Head(s).Volume_SC ELSE 0)
         + SumVolume(Tail(s), cultivar)

\* C9 (as claimed): when the generator has run, the volumes generated for each
\* record with Recepcao > 0 add up to its Recepcao.
C9_GeneratedSumEqualsRecepcao ==
    (pc = "done" /\ sample_data # <<>>) =>
        \A i \in 1..Len(df.rows) :
            Num(df.rows[i]["Recepcao"]) > 0 =>
                SumVolume(sample_data, df.rows[i]["Cultivar"]) = Num(df.rows[i]["Recepcao"])

\* C10: remaining is never negative; every record the loop appends has a
\* Volume_SC that is the smaller of the draw and remaining, is > 0 and is at
\* most the remaining volume before the step, which it is subtracted from;
\* within one record's loop remaining never grows.
C10_RemainingNeverNegative ==
    [][/\ remaining' >= 0
       /\ Len(sample_data') = Len(sample_data) + 1 =>
             LET v == sample_data'[Len(sample_data')].Volume_SC
             IN  /\ v = Min(NextDraw, remaining)
                 /\ NextDraw >= Fx(RandLo) /\ NextDraw <= Fx(RandHi)
                 /\ v > 0
                 /\ v <= remaining
                 /\ remaining' = remaining - v
       /\ (pc = "while" /\ pc' = "while") => remaining' <= remaining]_vars

\* of a reception of 150.5 SC a first record took 100, 50.5 remain; and the
\* next step takes those
C10_Witness ==
    /\ pc = "while"
    /\ Len(sample_data) = 2
    /\ sample_data[1].Volume_SC = Fx(100)
    /\ sample_data[2].Volume_SC = Fx(50) + 50
    /\ remaining = 0

\* C15: the timeline store is written only with a non-empty sample generated
\* while it was empty and the record set was not; records are generated in
\* no other state; a call that does not generate returns the stored timeline.
C15_GenerateOnlyWhenEmpty ==
    [][/\ timelineFile' # timelineFile =>
             /\ timelineFile = <<>>
             /\ Len(df.rows) > 0
             /\ sample_data # <<>>
             /\ timelineFile' = sample_data
       /\ Len(sample_data') > Len(sample_data) =>
             timelineFile = <<>> /\ Len(df.rows) > 0
       /\ (pc = "idle" /\ pc' = "done") =>
             resp'.n = Len(timelineFile) /\ view' = create_timeline_graph(timelineFile)]_vars

\* a second call found the sample a first call had generated for cultivar A
\* and returned it without generating
C15_Witness ==
    /\ pc = "done"
    /\ op = "graph_timeline"
    /\ sample_data = <<>>
    /\ Len(df.rows) > 0
    /\ timelineFile # <<>>
    /\ timelineFile[1].Cultivar = "A"
    /\ resp.n = Len(timelineFile)

\* number of generated records of the cultivar
RecordsFor(cultivar) ==
    Cardinality({k \in 1..Len(sample_data) : sample_data[k].Cultivar = cultivar})

\* C20: once the generator has begun to distribute the records it comes to its
\* end, and by then it has generated no more than DaysBack + 1 = 61 records
\* for any one record of the store.
C20_GeneratorTerminates ==
    (pc \in {"for", "while", "save"})
        ~> (/\ pc = "done"
            /\ \A i \in 1..Len(df.rows) :
                  RecordsFor(df.rows[i]["Cultivar"]) <= DaysBack + 1)

\* 7000 SC drawn 100 at a time, one day per step: 61 records, on the days
\* -60 .. 0, and 900 SC left
C20_Witness ==
    /\ pc = "done"
    /\ Len(df.rows) = 1
    /\ RecordsFor("A") = DaysBack + 1
    /\ sample_data[Len(sample_data)].Data = 0
    /\ remaining = Fx(900)

-----------------------------------------------------------------------------
(* Properties of the aggregation views (SpecAllViews) *)

\* C11 (as claimed): no step of a request for an aggregation view changes the
\* records held by the record store or by the timeline store.
C11_ViewsReadOnly ==
    [][dataFile'.rows = dataFile.rows /\ timelineFile' = timelineFile]_vars

\* C14: with no record and no timeline record, every view answers with its
\* "no data" placeholder and no error.
C14_EmptyInputsGivePlaceholder ==
    (op # "none" /\ Len(df.rows) = 0 /\ timelineFile = <<>>)
    => /\ resp.code = 200
       /\ view = Placeholder(IF op = "graph_timeline" THEN "timeline" ELSE op)

\* the timeline view was asked for with an empty data.csv and no timeline
\* record: nothing was generated and the placeholder came back
C14_Witness ==
    /\ op = "graph_timeline"
    /\ dataFile = EmptySchemaFile
    /\ Len(df.rows) = 0
    /\ timelineFile = <<>>
    /\ sample_data = <<>>
    /\ view = Placeholder("timeline")

-----------------------------------------------------------------------------
(* Properties of the requests that write the record store (SpecStore) *)

\* C13: an import_data whose sheet lacks one of Cultivar, Prev_Colheita,
\* Prev_Receb, Recepcao, Categoria answers with an error and leaves data.csv
\* as it was; a sheet that has the five succeeds, with or without Status.
C13_ImportRequiresColumns ==
    [][op' = "import_data" =>
          IF data_required_cols \subseteq sent'.cols /\ FilenameOk(sent')
          THEN /\ resp'.code = 200
               /\ Len(dataFile'.rows) = Len(sent'.rows)
               /\ \A i \in 1..Len(dataFile'.rows) :
                     "Status" \notin sent'.cols => dataFile'.rows[i]["Status"] = EmAndamento
          ELSE resp'.code # 200 /\ dataFile' = dataFile]_vars

\* a sheet without Categoria was refused while the store held a record of A
C13_Witness ==
    /\ op = "import_data"
    /\ resp.code = 400
    /\ sent.cols = RawCols \ {"Categoria"}
    /\ Len(sent.rows) = 1
    /\ Len(dataFile.rows) = 1
    /\ dataFile.rows[1]["Cultivar"] = "A"

\* C17: update_data, register_cultivar and import_data leave the timeline
\* store as it is, whatever they do to the Categoria of a cultivar.
C17_TimelineCategoriaFixed ==
    [][op' \in {"update_data", "register_cultivar", "import_data"}
          => timelineFile' = timelineFile]_vars

\* the event of A was imported while A was in category X; an update_data then
\* moved A to category Y: the timeline record still says X
C17_Witness ==
    /\ op = "update_data"
    /\ Len(timelineFile) = 1
    /\ timelineFile[1].Cultivar = "A" /\ timelineFile[1].Categoria = "X"
    /\ Len(dataFile.rows) = 1
    /\ dataFile.rows[1]["Cultivar"] = "A" /\ dataFile.rows[1]["Categoria"] = "Y"

\* C18 (as claimed): a successful register_cultivar leaves every stored record
\* in place with its Cultivar, Categoria and volumes and adds the new record,
\* with Status Em Andamento, at the end; a register whose volume is no number
\* answers with an error and leaves data.csv as it was.
C18_RegisterAppendsOne ==
    [][op' = "register_cultivar" =>
          IF resp'.code = 200
          THEN LET old == FileAfterLoad(dataFile)
                   n   == Len(old.rows)
               IN  /\ Len(dataFile'.rows) = n + 1
                   /\ \A i \in 1..n :
                         /\ \A c \in {"Cultivar", "Categoria"} \cap old.cols :
                               dataFile'.rows[i][c] = old.rows[i][c]
                         /\ \A c \in NumCols \cap old.cols :
                               to_numeric_fillna(dataFile'.rows[i][c])
                                  = to_numeric_fillna(old.rows[i][c])
                   /\ dataFile'.rows[n + 1]["Cultivar"] = sent'.cultivar
                   /\ dataFile'.rows[n + 1]["Status"] = EmAndamento
          ELSE /\ ~FormOk(sent')
               /\ dataFile' = dataFile]_vars

\* C19 (as claimed): after an update_data, register_cultivar or import_data
\* that stored at least one row, no Status cell of data.csv reads as empty and
\* a load returns every Status as stored.
C19_StatusNeverRecomputed ==
    (/\ op \in {"update_data", "register_cultivar", "import_data"}
     /\ resp.code = 200
     /\ Len(dataFile.rows) > 0)
    => \A i \in 1..Len(dataFile.rows) :
          /\ ~StoredStatusEmpty(i)
          /\ load_and_process_data(dataFile).rows[i]["Status"] = dataFile.rows[i]["Status"]

====
